---------------------------- MODULE Spec2Model ----------------------------
(***************************************************************************)
(* The NFSv3 session handler of cmd/serve/nfsv3: the handle registry       *)
(* (pathForHandle), the listing verifier cache (contentsForVerifier), the  *)
(* billy capability adapter, and the requests that the protocol layer      *)
(* runs concurrently against them.                                         *)
(*                                                                         *)
(* Both caches are lru.TwoQueueCache values (lru.New2Q): a 2Q cache made   *)
(* of three simple LRU lists (recent, frequent, recentEvict) behind one    *)
(* mutex.  An LRU list is a sequence of [key, value] records whose first   *)
(* element is the most recently used one.                                  *)
(***************************************************************************)
EXTENDS Integers, Sequences, FiniteSets, TLC

\* ---------------------------------------------------------------- bounds

\* const MAX_FILE_HANDLES = 1024, scaled down so that eviction is reachable.
MAX_FILE_HANDLES == 3

\* Number of concurrently served requests (goroutines of the protocol layer).
NumProcs == 2

\* ------------------------------------------------------------- universes

Procs == 1..NumProcs

\* Path component sequences handed to ToHandle, of distinct concatenations.
PlainPaths == {<<"a">>, <<"b">>, <<"c">>, <<"d">>, <<"e">>}

\* Paths among which two have the same concatenation.
JoinedPaths == {<<"a">>, <<"b">>, <<"c">>, <<"d">>, <<"a", "b">>, <<"ab">>}

Paths == PlainPaths \cup JoinedPaths

\* Directory paths handed to VerifierFor / DataForVerifier / the adapter.
DirPaths == {"/data", "/tmp"}

\* File names of a directory, and a slice of them: a Go slice is nil or
\* holds items.
FileNames == {"a.txt", "b.txt"}

Slice(items) == [nil |-> FALSE, items |-> items]

NilSlice == [nil |-> TRUE, items |-> <<>>]

\* Directory listings ([]iofs.FileInfo), by the names they hold.
Listings == {Slice(<<"a.txt">>), Slice(<<"a.txt", "b.txt">>)}

\* Directory modification times, in microseconds since the epoch.
ModTimes == {0, 1, 2}

\* A uint64 is held as its four 16-bit limbs, most significant first.
Limb == 2^16

\* uint64(x) of an int64 x: the two's complement of a negative x.
Uint64(x) ==
    <<IF x < 0 THEN Limb - 1 ELSE 0,
      IF x < 0 THEN Limb - 1 ELSE 0,
      (x \div Limb) % Limb,
      x % Limb>>

\* math.MaxUint64
MaxUint64 == <<Limb - 1, Limb - 1, Limb - 1, Limb - 1>>

\* The verifiers handed to DataForVerifier: those of the modification times.
Verifiers == {Uint64(t) : t \in ModTimes}

\* The holders of a mutex nobody holds.
Unlocked == {}

\* ------------------------------------------------- simplelru.LRU (a list)

Entry(k, v) == [key |-> k, value |-> v]

LruContains(l, k) == \E i \in 1..Len(l) : l[i].key = k

LruPeek(l, k) == l[CHOOSE i \in 1..Len(l) : l[i].key = k].value

LruRemove(l, k) == SelectSeq(l, LAMBDA e : e.key # k)

LruRemoveOldest(l) == SubSeq(l, 1, Len(l) - 1)

LruOldestKey(l) == l[Len(l)].key

\* LRU.Add: an existing key moves to the front with the new value; a new
\* key is pushed to the front and the oldest entry leaves when the list
\* outgrows size.
LruAdd(l, k, v, size) ==
    IF LruContains(l, k)
    THEN <<Entry(k, v)>> \o LruRemove(l, k)
    ELSE LET n == <<Entry(k, v)>> \o l
         IN  IF Len(n) > size THEN LruRemoveOldest(n) ELSE n

\* LRU.Get on a key the list holds: the entry moves to the front.
LruTouch(l, k) == <<Entry(k, LruPeek(l, k))>> \o LruRemove(l, k)

\* ---------------------------------------------------- lru.TwoQueueCache

\* Default2QRecentRatio = 0.25, Default2QGhostEntries = 0.50
RecentSize(size) == size \div 4

EvictSize(size) == size \div 2

New2Q(size) ==
    [size |-> size, recentSize |-> RecentSize(size), evictSize |-> EvictSize(size),
     recent |-> <<>>, frequent |-> <<>>, recentEvict |-> <<>>]

\* An ensureSpace that makes room only once the cache has outgrown its size.
EnsureSpaceLate(c, recentEvict) ==
    LET recentLen == Len(c.recent)
        freqLen == Len(c.frequent)
    IN  IF recentLen + freqLen <= c.size
        THEN c
        ELSE IF recentLen > 0 /\ (recentLen > c.recentSize
                                  \/ (recentLen = c.recentSize /\ ~recentEvict))
        THEN [c EXCEPT !.recent = LruRemoveOldest(c.recent),
                       !.recentEvict = LruAdd(c.recentEvict, LruOldestKey(c.recent),
                                              "nil", c.evictSize)]
        ELSE [c EXCEPT !.frequent = LruRemoveOldest(c.frequent)]

\* TwoQueueCache.ensureSpace
EnsureSpace(c, recentEvict) ==
    LET recentLen == Len(c.recent)
        freqLen == Len(c.frequent)
    IN  IF recentLen + freqLen < c.size
        THEN c
        ELSE IF recentLen > 0 /\ (recentLen > c.recentSize
                                  \/ (recentLen = c.recentSize /\ ~recentEvict))
        THEN [c EXCEPT !.recent = LruRemoveOldest(c.recent),
                       !.recentEvict = LruAdd(c.recentEvict, LruOldestKey(c.recent),
                                              "nil", c.evictSize)]
        ELSE [c EXCEPT !.frequent = LruRemoveOldest(c.frequent)]

\* TwoQueueCache.Add
TwoQueueAdd(c, k, v) ==
    IF LruContains(c.frequent, k)
    THEN [c EXCEPT !.frequent = LruAdd(c.frequent, k, v, c.size)]
    ELSE IF LruContains(c.recent, k)
    THEN [c EXCEPT !.recent = LruRemove(c.recent, k),
                   !.frequent = LruAdd(c.frequent, k, v, c.size)]
    ELSE IF LruContains(c.recentEvict, k)
    THEN LET d == EnsureSpace(c, TRUE)
         IN  [d EXCEPT !.recentEvict = LruRemove(d.recentEvict, k),
                       !.frequent = LruAdd(d.frequent, k, v, c.size)]
    ELSE LET d == EnsureSpace(c, FALSE)
         IN  [d EXCEPT !.recent = LruAdd(d.recent, k, v, c.size)]

\* A Get that takes the entry it finds out of the cache.
TwoQueueGetOnce(c, k) ==
    IF LruContains(c.frequent, k)
    THEN [cache |-> [c EXCEPT !.frequent = LruRemove(c.frequent, k)],
          value |-> LruPeek(c.frequent, k), ok |-> TRUE]
    ELSE IF LruContains(c.recent, k)
    THEN [cache |-> [c EXCEPT !.recent = LruRemove(c.recent, k)],
          value |-> LruPeek(c.recent, k), ok |-> TRUE]
    ELSE [cache |-> c, value |-> "nil", ok |-> FALSE]

\* TwoQueueCache.Get: [cache, value, ok]
TwoQueueGet(c, k) ==
    IF LruContains(c.frequent, k)
    THEN [cache |-> [c EXCEPT !.frequent = LruTouch(c.frequent, k)],
          value |-> LruPeek(c.frequent, k), ok |-> TRUE]
    ELSE IF LruContains(c.recent, k)
    THEN [cache |-> [c EXCEPT !.recent = LruRemove(c.recent, k),
                              !.frequent = LruAdd(c.frequent, k, LruPeek(c.recent, k), c.size)],
          value |-> LruPeek(c.recent, k), ok |-> TRUE]
    ELSE [cache |-> c, value |-> "nil", ok |-> FALSE]

\* The keys a Get finds.
TwoQueueKeys(c) ==
    {c.recent[i].key : i \in 1..Len(c.recent)}
        \cup {c.frequent[i].key : i \in 1..Len(c.frequent)}

TwoQueueLen(c) == Len(c.recent) + Len(c.frequent)


\* ------------------------------------------------------------ the server

VARIABLES
    vfs,                  \* the live filesystem: directory -> [exists, modTime, listing]
    pathForHandle,        \* server.pathForHandle: handle -> path components
    contentsForVerifier,  \* server.contentsForVerifier: (verifier, path) -> listing
    mu,                   \* who holds each cache's mutex (TwoQueueCache.lock)
    pc,                   \* where each request goroutine stands
    frame,                \* the arguments and locals of the VerifierFor in progress
    ret,                  \* the request completed last: its arguments and results
    hprev,                \* history: the request completed before ret
    issued,               \* history: the handle ToHandle returned first, per path
    produced,             \* history: the (path, verifier) pairs VerifierFor returned
    offered,              \* history: the (path, listing) pairs VerifierFor was called with
    during,               \* history: the requests completed while a Stat is pending
    touched,              \* history: handles by last touch, most recent first
    streak,               \* history: handles of the trailing run of first-time registrations
    captured              \* history: per goroutine, the listing it read last and the
                          \* directory's modification time at that moment

prog == <<vfs, pathForHandle, contentsForVerifier, mu, pc, frame, ret>>

ghost == <<hprev, issued, produced, offered, during, touched, streak, captured>>

vars == <<prog, ghost>>

RECURSIVE Concat(_)
Concat(path) == IF path = <<>> THEN "" ELSE Head(path) \o Concat(Tail(path))

\* A handle that depends on what the registry holds (a counter, a salt).
DigestSalted(path) ==
    Concat(path) \o (IF Len(pathForHandle.recent) + Len(pathForHandle.frequent) > 1
                     THEN "#" ELSE "")

\* ToHandle, lines 222-227: SHA-256 over the path components written one
\* after the other, with no separator.  The digest of a byte string is
\* modelled by the byte string itself (SHA-256 taken as collision free).
Digest(path) == Concat(path)

\* var key [32]byte; copy(key[:], fh): a 32-byte handle is its own key.
HandleKey(fh) == fh

\* The handles FromHandle is called with: every digest, and one no path has.
JoinedHandles == {Digest(P) : P \in JoinedPaths} \cup {"zz"}

\* The path stored as one joined string.
JoinedString(path) == [type |-> "string", data |-> Concat(path)]

\* The value of an interface{} with its dynamic type.
StringSlice(path) == [type |-> "[]string", data |-> path]

NoCapture == [ok |-> FALSE, dir |-> "", contents |-> NilSlice, modTime |-> 0]

IdleFrame == [dir |-> "", verifier |-> Uint64(0), contents |-> NilSlice]

NoRequest == [op |-> "none"]

Range(s) == {s[i] : i \in 1..Len(s)}

\* The returns of FromHandle for what pathForHandle.Get returned.
FromHandleResult(got) ==
    IF got.ok
    THEN IF got.value.type = "[]string"
         THEN [path |-> got.value.data, err |-> ""]
         ELSE [path |-> <<>>, err |-> "invalid value in map"]
    ELSE [path |-> <<>>, err |-> "handle unknown or expired"]

\* ToHandle keeping the path a handle already has (ContainsOrAdd for Add).
ToHandleKeepFirst(p, path) ==
    /\ pc[p] = "idle"
    /\ mu.pathForHandle = Unlocked
    /\ pathForHandle' = IF HandleKey(Digest(path)) \in TwoQueueKeys(pathForHandle)
                        THEN pathForHandle
                        ELSE TwoQueueAdd(pathForHandle, HandleKey(Digest(path)),
                                         StringSlice(path))
    /\ ret' = [op |-> "ToHandle", path |-> path, fh |-> Digest(path)]
    /\ UNCHANGED <<vfs, contentsForVerifier, mu, pc, frame>>

\* A ToHandle whose entry is read while only part of the path is written.
ToHandleTorn(p, path) ==
    /\ pc[p] = "idle"
    /\ mu.pathForHandle = Unlocked
    /\ pathForHandle' = TwoQueueAdd(pathForHandle, HandleKey(Digest(path)),
                                    StringSlice(SubSeq(path, 1, Len(path) - 1)))
    /\ ret' = [op |-> "ToHandle", path |-> path, fh |-> Digest(path)]
    /\ UNCHANGED <<vfs, contentsForVerifier, mu, pc, frame>>

\* ToHandle: the digest of the path, s.pathForHandle.Add(key, path) under
\* the cache's mutex, return sum.
ToHandle(p, path) ==
    /\ pc[p] = "idle"
    /\ mu.pathForHandle = Unlocked
    /\ pathForHandle' = TwoQueueAdd(pathForHandle, HandleKey(Digest(path)), StringSlice(path))
    /\ ret' = [op |-> "ToHandle", path |-> path, fh |-> Digest(path)]
    /\ UNCHANGED <<vfs, contentsForVerifier, mu, pc, frame>>

\* FromHandle: s.pathForHandle.Get(key) under the cache's mutex, and the
\* returns for what it found.
FromHandle(p, fh) ==
    /\ pc[p] = "idle"
    /\ mu.pathForHandle = Unlocked
    /\ LET got == TwoQueueGet(pathForHandle, HandleKey(fh))
           res == FromHandleResult(got)
       IN  /\ pathForHandle' = got.cache
           /\ ret' = [op |-> "FromHandle", fh |-> fh, path |-> res.path, err |-> res.err]
    /\ UNCHANGED <<vfs, contentsForVerifier, mu, pc, frame>>

\* What FromHandle would answer for fh in the current state.
Resolves(fh) == FromHandleResult(TwoQueueGet(pathForHandle, HandleKey(fh))).err = ""

\* ------------------------------------------------------ the filesystem

\* A directory of the live filesystem; one that does not exist has no
\* modification time and no entries.
NoDir == [exists |-> FALSE, modTime |-> 0, listing |-> {}]

LiveDirs == [exists : {TRUE}, modTime : ModTimes, listing : SUBSET FileNames] \cup {NoDir}

\* vfs.VFS.Stat(path): [nil, err, modTime]; the node is nil exactly when
\* there is an error.
VfsStat(dir) ==
    IF vfs[dir].exists
    THEN [nil |-> FALSE, err |-> "", modTime |-> vfs[dir].modTime]
    ELSE [nil |-> TRUE, err |-> "ENOENT", modTime |-> 0]

\* vfs.VFS.Create / OpenFile(O_CREATE): the file appears in its directory,
\* whose modification time becomes now.
VfsCreate(dir, name, now) ==
    IF vfs[dir].exists
    THEN [err |-> "", fs |-> [vfs EXCEPT ![dir].listing = @ \cup {name}, ![dir].modTime = now]]
    ELSE [err |-> "ENOENT", fs |-> vfs]

\* vfs.VFS.Remove of a file, or of an empty directory (name "").
VfsRemove(dir, name, now) ==
    IF ~vfs[dir].exists THEN [err |-> "ENOENT", fs |-> vfs]
    ELSE IF name = ""
    THEN IF vfs[dir].listing = {}
         THEN [err |-> "", fs |-> [vfs EXCEPT ![dir] = NoDir]]
         ELSE [err |-> "ENOTEMPTY", fs |-> vfs]
    ELSE IF name \in vfs[dir].listing
    THEN [err |-> "", fs |-> [vfs EXCEPT ![dir].listing = @ \ {name}, ![dir].modTime = now]]
    ELSE [err |-> "ENOENT", fs |-> vfs]

\* vfs.VFS.Open: the file must exist.
VfsOpen(dir, name) ==
    IF vfs[dir].exists /\ name \in vfs[dir].listing
    THEN [err |-> "", fs |-> vfs]
    ELSE [err |-> "ENOENT", fs |-> vfs]

\* vfs.VFS.OpenFile(name, flags, perm): with O_CREATE as Create, else as Open.
VfsOpenFile(dir, name, flag, perm, now) ==
    IF flag = "O_CREATE" THEN VfsCreate(dir, name, now) ELSE VfsOpen(dir, name)

\* The order in which a directory lists its names.
FileOrder == <<"a.txt", "b.txt">>

\* vfs.VFS.ReadDir: the entries of a directory, by name; no entries give
\* the nil slice.
VfsReadDir(dir) ==
    IF vfs[dir].exists
    THEN [err |-> "",
          fis |-> IF vfs[dir].listing = {}
                  THEN NilSlice
                  ELSE Slice(SelectSeq(FileOrder, LAMBDA n : n \in vfs[dir].listing))]
    ELSE [err |-> "ENOENT", fis |-> NilSlice]

\* vfs.VFS.Rename within a directory, whose modification time becomes now.
VfsRename(dir, oldname, newname, now) ==
    IF vfs[dir].exists /\ oldname \in vfs[dir].listing
    THEN [err |-> "",
          fs |-> [vfs EXCEPT ![dir].listing = (@ \ {oldname}) \cup {newname},
                             ![dir].modTime = now]]
    ELSE [err |-> "ENOENT", fs |-> vfs]

\* vfs.VFS.Statfs: the byte counts (total, used, free) it can report, each
\* an int64 that is -1 when the backend does not know it.
StatfsCounts == {-1, 0, 600, 1000}

\* node.ModTime().UnixMicro(): modification times are kept in microseconds.
UnixMicro(modTime) == modTime

\* ------------------------------------------------- the capability adapter

\* billyFs.Create forwards to VFS.Create and touches neither cache.
Create(p, dir, name, now) ==
    /\ pc[p] = "idle"
    /\ LET r == VfsCreate(dir, name, now)
       IN  /\ vfs' = r.fs
           /\ ret' = [op |-> "Create", dir |-> dir, name |-> name, err |-> r.err]
    /\ UNCHANGED <<pathForHandle, contentsForVerifier, mu, pc, frame>>

\* A Remove that also drops the listings cached for the directory.
RemoveInvalidating(p, dir, name, now) ==
    /\ pc[p] = "idle"
    /\ LET r == VfsRemove(dir, name, now)
       IN  /\ vfs' = r.fs
           /\ ret' = [op |-> "Remove", dir |-> dir, name |-> name, err |-> r.err]
    /\ contentsForVerifier' =
         [contentsForVerifier EXCEPT
            !.recent = SelectSeq(@, LAMBDA e : e.key.path # dir),
            !.frequent = SelectSeq(@, LAMBDA e : e.key.path # dir)]
    /\ UNCHANGED <<pathForHandle, mu, pc, frame>>

\* billyFs.Remove forwards to VFS.Remove and touches neither cache.
Remove(p, dir, name, now) ==
    /\ pc[p] = "idle"
    /\ LET r == VfsRemove(dir, name, now)
       IN  /\ vfs' = r.fs
           /\ ret' = [op |-> "Remove", dir |-> dir, name |-> name, err |-> r.err]
    /\ UNCHANGED <<pathForHandle, contentsForVerifier, mu, pc, frame>>

\* billyFs.Open forwards to VFS.Open.
Open(p, dir, name) ==
    /\ pc[p] = "idle"
    /\ LET r == VfsOpen(dir, name)
       IN  ret' = [op |-> "Open", dir |-> dir, name |-> name, err |-> r.err, panic |-> ""]
    /\ UNCHANGED <<vfs, pathForHandle, contentsForVerifier, mu, pc, frame>>

\* billyFs.OpenFile forwards to VFS.OpenFile.
OpenFile(p, dir, name, flag, perm, now) ==
    /\ pc[p] = "idle"
    /\ LET r == VfsOpenFile(dir, name, flag, perm, now)
       IN  /\ vfs' = r.fs
           /\ ret' = [op |-> "OpenFile", dir |-> dir, name |-> name, flag |-> flag,
                      perm |-> perm, err |-> r.err, panic |-> ""]
    /\ UNCHANGED <<pathForHandle, contentsForVerifier, mu, pc, frame>>

\* The runtime panic of a method call on a nil interface value.
NilDereference == "invalid memory address or nil pointer dereference"

\* billyFs.Stat: fi, err = fs.VFS.Stat(filename), then fi.Name() for the
\* Printf whatever err is, then return fi, err.
Stat(p, filename) ==
    /\ pc[p] = "idle"
    /\ LET st == VfsStat(filename)
       IN  ret' = [op |-> "Stat", filename |-> filename, err |-> st.err,
                   panic |-> IF st.nil THEN NilDereference ELSE ""]
    /\ UNCHANGED <<vfs, pathForHandle, contentsForVerifier, mu, pc, frame>>

\* billyFs.ReadDir forwards to VFS.ReadDir.
ReadDir(p, path) ==
    /\ pc[p] = "idle"
    /\ LET r == VfsReadDir(path)
       IN  ret' = [op |-> "ReadDir", path |-> path, fis |-> r.fis, err |-> r.err,
                   panic |-> ""]
    /\ UNCHANGED <<vfs, pathForHandle, contentsForVerifier, mu, pc, frame>>

\* billyFs.Rename forwards to VFS.Rename.
Rename(p, dir, oldname, newname, now) ==
    /\ pc[p] = "idle"
    /\ LET r == VfsRename(dir, oldname, newname, now)
       IN  /\ vfs' = r.fs
           /\ ret' = [op |-> "Rename", dir |-> dir, oldname |-> oldname,
                      newname |-> newname, err |-> r.err, panic |-> ""]
    /\ UNCHANGED <<pathForHandle, contentsForVerifier, mu, pc, frame>>

\* const separator = filepath.Separator
Separator == "/"

\* billyFs.Root
Root == "/"

\* strings.Join(elems, sep)
RECURSIVE StringsJoin(_, _)
StringsJoin(elems, sep) ==
    IF elems = <<>> THEN ""
    ELSE IF Len(elems) = 1 THEN elems[1]
    ELSE Head(elems) \o sep \o StringsJoin(Tail(elems), sep)

\* filepath.Clean on the components of a relative path: "." is dropped and
\* ".." takes back the component before it, if there is one.
RECURSIVE CleanComponents(_, _)
CleanComponents(out, rest) ==
    IF rest = <<>> THEN out
    ELSE LET c == Head(rest)
         IN  IF c = "."
             THEN CleanComponents(out, Tail(rest))
             ELSE IF c = ".." /\ out # <<>> /\ out[Len(out)] # ".."
             THEN CleanComponents(SubSeq(out, 1, Len(out) - 1), Tail(rest))
             ELSE CleanComponents(Append(out, c), Tail(rest))

\* filepath.Clean: the empty result is ".".
Clean(components) ==
    LET out == CleanComponents(<<>>, components)
    IN  IF out = <<>> THEN "." ELSE StringsJoin(out, Separator)

\* filepath.Join: empty elements are ignored and the result is cleaned; no
\* element, or only empty ones, give the empty string.
FilepathJoin(elem) ==
    LET nonEmpty == SelectSeq(elem, LAMBDA e : e # "")
    IN  IF nonEmpty = <<>> THEN "" ELSE Clean(nonEmpty)

\* billyFs.Join
Join(p, elem) ==
    /\ pc[p] = "idle"
    /\ ret' = [op |-> "Join", elem |-> elem,
               path |-> IF Len(elem) = 0 THEN Root ELSE FilepathJoin(elem)]
    /\ UNCHANGED <<vfs, pathForHandle, contentsForVerifier, mu, pc, frame>>

\* billy.ErrNotSupported
ErrNotSupported == "feature not supported"

\* billyFile.Lock
Lock(p, file) ==
    /\ pc[p] = "idle"
    /\ ret' = [op |-> "Lock", file |-> file, err |-> ErrNotSupported]
    /\ UNCHANGED <<vfs, pathForHandle, contentsForVerifier, mu, pc, frame>>

\* billyFile.Unlock
Unlock(p, file) ==
    /\ pc[p] = "idle"
    /\ ret' = [op |-> "Unlock", file |-> file, err |-> ErrNotSupported]
    /\ UNCHANGED <<vfs, pathForHandle, contentsForVerifier, mu, pc, frame>>

\* A MkdirAll that makes the directory.
MkdirAllMaking(p, filename, perm) ==
    /\ pc[p] = "idle"
    /\ vfs' = [vfs EXCEPT ![filename] =
                 IF @.exists THEN @ ELSE [exists |-> TRUE, modTime |-> 0, listing |-> {}]]
    /\ ret' = [op |-> "MkdirAll", filename |-> filename, perm |-> perm,
               err |-> IF vfs[filename].exists THEN ErrNotSupported ELSE ""]
    /\ UNCHANGED <<pathForHandle, contentsForVerifier, mu, pc, frame>>

\* billyFs.MkdirAll
MkdirAll(p, filename, perm) ==
    /\ pc[p] = "idle"
    /\ ret' = [op |-> "MkdirAll", filename |-> filename, perm |-> perm,
               err |-> ErrNotSupported]
    /\ UNCHANGED <<vfs, pathForHandle, contentsForVerifier, mu, pc, frame>>

\* billyFs.Chroot: no filesystem, ErrNotSupported
Chroot(p, path) ==
    /\ pc[p] = "idle"
    /\ ret' = [op |-> "Chroot", path |-> path, fs |-> "nil", err |-> ErrNotSupported]
    /\ UNCHANGED <<vfs, pathForHandle, contentsForVerifier, mu, pc, frame>>

\* billyFs.Lstat: no file info, ErrNotSupported
Lstat(p, filename) ==
    /\ pc[p] = "idle"
    /\ ret' = [op |-> "Lstat", filename |-> filename, fi |-> "nil", err |-> ErrNotSupported]
    /\ UNCHANGED <<vfs, pathForHandle, contentsForVerifier, mu, pc, frame>>

\* billyFs.Symlink
Symlink(p, target, link) ==
    /\ pc[p] = "idle"
    /\ ret' = [op |-> "Symlink", target |-> target, link |-> link, err |-> ErrNotSupported]
    /\ UNCHANGED <<vfs, pathForHandle, contentsForVerifier, mu, pc, frame>>

\* billyFs.Readlink: the empty string, ErrNotSupported
Readlink(p, link) ==
    /\ pc[p] = "idle"
    /\ ret' = [op |-> "Readlink", link |-> link, target |-> "", err |-> ErrNotSupported]
    /\ UNCHANGED <<vfs, pathForHandle, contentsForVerifier, mu, pc, frame>>

\* billyFs.TempFile: no file, ErrNotSupported
TempFile(p, dir, prefix) ==
    /\ pc[p] = "idle"
    /\ ret' = [op |-> "TempFile", dir |-> dir, prefix |-> prefix, file |-> "nil",
               err |-> ErrNotSupported]
    /\ UNCHANGED <<vfs, pathForHandle, contentsForVerifier, mu, pc, frame>>

\* ------------------------------------------------------ the session handler

\* A Mount that refuses a directory that does not exist.
MountChecking(p, dirpath) ==
    /\ pc[p] = "idle"
    /\ ret' = [op |-> "Mount", dirpath |-> dirpath,
               status |-> IF dirpath \in DOMAIN vfs /\ vfs[dirpath].exists
                          THEN "MountStatusOk" ELSE "MountStatusErrNoEnt",
               fs |-> "s.fs", auth |-> <<"AuthFlavorNull">>]
    /\ UNCHANGED <<vfs, pathForHandle, contentsForVerifier, mu, pc, frame>>

\* server.Mount: nfs.MountStatusOk, s.fs, []nfs.AuthFlavor{nfs.AuthFlavorNull}
Mount(p, dirpath) ==
    /\ pc[p] = "idle"
    /\ ret' = [op |-> "Mount", dirpath |-> dirpath, status |-> "MountStatusOk",
               fs |-> "s.fs", auth |-> <<"AuthFlavorNull">>]
    /\ UNCHANGED <<vfs, pathForHandle, contentsForVerifier, mu, pc, frame>>

\* server.FSStat for the (total, used, free) that VFS.Statfs reports.
FSStat(p, total, used, free) ==
    /\ pc[p] = "idle"
    /\ ret' = [op |-> "FSStat", total |-> total, used |-> used, free |-> free,
               TotalSize |-> Uint64(total),
               FreeSize |-> Uint64(free),
               AvailableSize |-> Uint64(free),
               TotalFiles |-> Uint64(0),
               FreeFiles |-> MaxUint64,
               AvailableFiles |-> MaxUint64,
               err |-> ""]
    /\ UNCHANGED <<vfs, pathForHandle, contentsForVerifier, mu, pc, frame>>

\* server.HandleLimit
HandleLimit(p) ==
    /\ pc[p] = "idle"
    /\ ret' = [op |-> "HandleLimit", limit |-> MAX_FILE_HANDLES]
    /\ UNCHANGED <<vfs, pathForHandle, contentsForVerifier, mu, pc, frame>>

\* ------------------------------------------------ the listing verifier cache

\* A cache key that leaves the path out.
VerifierOnly(verifier, path) == [verifier |-> verifier, path |-> ""]

\* type VerifierPathPair struct { verifier uint64; path string }
VerifierPathPair(verifier, path) == [verifier |-> verifier, path |-> path]

FileInfoSlice(contents) == [type |-> "[]iofs.FileInfo", data |-> contents]

\* A VerifierFor that takes the cache's mutex before it stats the path.
VerifierForStatLocked(p, dir, contents) ==
    /\ pc[p] = "idle"
    /\ mu.contentsForVerifier = Unlocked
    /\ mu' = [mu EXCEPT !.contentsForVerifier = {p}]
    /\ pc' = [pc EXCEPT ![p] = "Stat"]
    /\ frame' = [frame EXCEPT ![p] = [IdleFrame EXCEPT !.dir = dir, !.contents = contents]]
    /\ UNCHANGED <<vfs, pathForHandle, contentsForVerifier, ret>>

\* VerifierFor enters s.fs.VFS.Stat(path), which may block on I/O.
VerifierForStat(p, dir, contents) ==
    /\ pc[p] = "idle"
    /\ pc' = [pc EXCEPT ![p] = "Stat"]
    /\ frame' = [frame EXCEPT ![p] = [IdleFrame EXCEPT !.dir = dir, !.contents = contents]]
    /\ UNCHANGED <<vfs, pathForHandle, contentsForVerifier, mu, ret>>

\* Stat returns: on an error VerifierFor returns 0; otherwise the verifier
\* is the modification time in microseconds.
VerifierForStatReturn(p) ==
    /\ pc[p] = "Stat"
    /\ LET st == VfsStat(frame[p].dir)
       IN  IF st.err # ""
           THEN /\ pc' = [pc EXCEPT ![p] = "idle"]
                /\ frame' = [frame EXCEPT ![p] = IdleFrame]
                /\ ret' = [op |-> "VerifierFor", dir |-> frame[p].dir,
                           contents |-> frame[p].contents, verifier |-> Uint64(0),
                           statErr |-> st.err]
           ELSE /\ pc' = [pc EXCEPT ![p] = "Statted"]
                /\ frame' = [frame EXCEPT ![p].verifier = Uint64(UnixMicro(st.modTime))]
                /\ ret' = ret
    /\ UNCHANGED <<vfs, pathForHandle, contentsForVerifier, mu>>

\* VerifierFor keeping the listing a (verifier, path) pair already has.
VerifierForAddKeepFirst(p) ==
    /\ pc[p] = "Statted"
    /\ mu.contentsForVerifier = Unlocked
    /\ LET key == VerifierPathPair(frame[p].verifier, frame[p].dir)
       IN  contentsForVerifier' =
             IF key \in TwoQueueKeys(contentsForVerifier)
             THEN contentsForVerifier
             ELSE TwoQueueAdd(contentsForVerifier, key, FileInfoSlice(frame[p].contents))
    /\ pc' = [pc EXCEPT ![p] = "idle"]
    /\ frame' = [frame EXCEPT ![p] = IdleFrame]
    /\ ret' = [op |-> "VerifierFor", dir |-> frame[p].dir,
               contents |-> frame[p].contents, verifier |-> frame[p].verifier,
               statErr |-> ""]
    /\ UNCHANGED <<vfs, pathForHandle, mu>>

\* s.contentsForVerifier.Add(key, contents) under the cache's mutex;
\* return verifier
VerifierForAdd(p) ==
    /\ pc[p] = "Statted"
    /\ mu.contentsForVerifier = Unlocked
    /\ contentsForVerifier' =
         TwoQueueAdd(contentsForVerifier,
                     VerifierPathPair(frame[p].verifier, frame[p].dir),
                     FileInfoSlice(frame[p].contents))
    /\ pc' = [pc EXCEPT ![p] = "idle"]
    /\ frame' = [frame EXCEPT ![p] = IdleFrame]
    /\ ret' = [op |-> "VerifierFor", dir |-> frame[p].dir,
               contents |-> frame[p].contents, verifier |-> frame[p].verifier,
               statErr |-> ""]
    /\ UNCHANGED <<vfs, pathForHandle, mu>>

\* The return of DataForVerifier for what contentsForVerifier.Get returned.
DataForVerifierResult(got) ==
    IF got.ok /\ got.value.type = "[]iofs.FileInfo" THEN got.value.data ELSE NilSlice

\* DataForVerifier: s.contentsForVerifier.Get(key) under the cache's mutex,
\* and the returns for what it found.
DataForVerifier(p, dir, verifier) ==
    /\ pc[p] = "idle"
    /\ mu.contentsForVerifier = Unlocked
    /\ LET got == TwoQueueGet(contentsForVerifier, VerifierPathPair(verifier, dir))
       IN  /\ contentsForVerifier' = got.cache
           /\ ret' = [op |-> "DataForVerifier", dir |-> dir, verifier |-> verifier,
                      contents |-> DataForVerifierResult(got)]
    /\ UNCHANGED <<vfs, pathForHandle, mu, pc, frame>>

\* What DataForVerifier would answer for (dir, verifier) in the current state.
CachedListing(dir, verifier) ==
    DataForVerifierResult(TwoQueueGet(contentsForVerifier, VerifierPathPair(verifier, dir)))

\* A registry one entry larger than the advertised limit.
HandleCacheOversized == New2Q(MAX_FILE_HANDLES + 1)

\* handleCache, _ := lru.New2Q(MAX_FILE_HANDLES)
HandleCache == New2Q(MAX_FILE_HANDLES)

\* verifierCache, _ := lru.New2Q(MAX_FILE_HANDLES)
VerifierCache == New2Q(MAX_FILE_HANDLES)

\* newServer: both caches empty, no request in progress.
Init ==
    /\ vfs \in [DirPaths -> LiveDirs]
    /\ pathForHandle = HandleCache
    /\ contentsForVerifier = VerifierCache
    /\ mu = [pathForHandle |-> Unlocked, contentsForVerifier |-> Unlocked]
    /\ pc = [p \in Procs |-> "idle"]
    /\ frame = [p \in Procs |-> IdleFrame]
    /\ ret = NoRequest
    /\ hprev = NoRequest
    /\ issued = [P \in Paths |-> "none"]
    /\ produced = {}
    /\ offered = {}
    /\ during = {}
    /\ touched = <<>>
    /\ streak = <<>>
    /\ captured = [p \in Procs |-> NoCapture]

\* ------------------------------------------------------- history variables

MoveToFront(s, h) == <<h>> \o SelectSeq(s, LAMBDA x : x # h)

\* A registry request completed: ret' is that request, ret the one before it.
ObserveRequest ==
    /\ hprev' = ret
    /\ issued' = IF ret'.op = "ToHandle" /\ issued[ret'.path] = "none"
                 THEN [issued EXCEPT ![ret'.path] = ret'.fh]
                 ELSE issued
    /\ UNCHANGED <<produced, offered, during, touched, streak, captured>>

\* A registry request completed: the order of touches and the run of
\* first-time registrations.
ObserveTouch ==
    /\ touched' = IF ret'.op = "ToHandle" \/ (ret'.op = "FromHandle" /\ ret'.err = "")
                  THEN MoveToFront(touched, ret'.fh)
                  ELSE touched
    /\ streak' = IF ret'.op = "ToHandle" /\ ret'.fh \notin Range(touched)
                 THEN Append(streak, ret'.fh)
                 ELSE <<>>
    /\ issued' = IF ret'.op = "ToHandle" /\ issued[ret'.path] = "none"
                 THEN [issued EXCEPT ![ret'.path] = ret'.fh]
                 ELSE issued
    /\ UNCHANGED <<hprev, produced, offered, during, captured>>

\* A step of the verifier cache or of the adapter: when it completes a
\* request, ret' is that request and ret the one before it, which is kept
\* when it is a VerifierFor.
Completes == \E p \in Procs : pc[p] # "idle" /\ pc'[p] = "idle"

ObserveVerifier(done) ==
    /\ hprev' = IF done
                THEN (IF ret.op = "VerifierFor" THEN ret ELSE NoRequest)
                ELSE hprev
    /\ produced' = IF done /\ ret'.op = "VerifierFor"
                   THEN produced \cup {<<ret'.dir, ret'.verifier>>}
                   ELSE produced
    /\ UNCHANGED <<issued, offered, during, touched, streak, captured>>

\* A step of concurrent requests: the arguments seen so far, and what
\* completes while some request stays inside Stat.
ObserveConcurrent(done) ==
    /\ issued' = IF done /\ ret'.op = "ToHandle" /\ issued[ret'.path] = "none"
                 THEN [issued EXCEPT ![ret'.path] = ret'.fh]
                 ELSE issued
    /\ offered' = offered \cup {<<frame'[p].dir, frame'[p].contents>> :
                                  p \in {q \in Procs : pc'[q] = "Stat"}}
    /\ during' = IF \E p \in Procs : pc[p] = "Stat" /\ pc'[p] = "Stat"
                 THEN (IF done THEN during \cup {ret'.op} ELSE during)
                 ELSE {}
    /\ UNCHANGED <<hprev, produced, touched, streak, captured>>

\* Goroutine p completed a ReadDir: the listing it holds now, and the
\* modification time the directory has at this moment.
ObserveCapture(p) ==
    /\ captured' = [captured EXCEPT ![p] =
                      [ok |-> ret'.err = "", dir |-> ret'.path, contents |-> ret'.fis,
                       modTime |-> IF ret'.err = "" THEN vfs[ret'.path].modTime ELSE 0]]
    /\ UNCHANGED <<hprev, issued, produced, offered, during, touched, streak>>

\* ---------------------------------------------------------- specifications

Quiet(d) == [exists |-> TRUE, modTime |-> 0, listing |-> {"a.txt"}]

\* The registry alone, one request at a time, over every path.
InitRegistry ==
    /\ Init
    /\ vfs = [d \in DirPaths |-> Quiet(d)]

NextRegistry ==
    \/ \E path \in JoinedPaths : ToHandle(1, path) /\ ObserveRequest
    \/ \E fh \in JoinedHandles : FromHandle(1, fh) /\ ObserveRequest

SpecRegistry == InitRegistry /\ [][NextRegistry]_vars

\* The registry alone, one request at a time, over paths of distinct digests,
\* with the order of touches recorded.
NextEvict ==
    \/ \E path \in PlainPaths : ToHandle(1, path) /\ ObserveTouch
    \/ \E path \in PlainPaths : FromHandle(1, Digest(path)) /\ ObserveTouch

SpecEvict == InitRegistry /\ [][NextEvict]_vars

\* The verifier cache and the adapter, one request at a time; "/data" is
\* the directory that changes.
InitVerifier ==
    /\ Init
    /\ vfs["/tmp"] = Quiet("/tmp")
    /\ vfs["/data"] = Quiet("/data")

NextVerifier ==
    \/ \E dir \in DirPaths, contents \in Listings :
          VerifierForStat(1, dir, contents) /\ UNCHANGED ghost
    \/ VerifierForStatReturn(1) /\ ObserveVerifier(Completes)
    \/ VerifierForAdd(1) /\ ObserveVerifier(TRUE)
    \/ \E dir \in DirPaths, verifier \in Verifiers :
          DataForVerifier(1, dir, verifier) /\ ObserveVerifier(TRUE)
    \/ \E now \in ModTimes :
          Create(1, "/data", "a.txt", now) /\ ObserveVerifier(TRUE)
    \/ \E name \in {"a.txt", ""}, now \in ModTimes :
          Remove(1, "/data", name, now) /\ ObserveVerifier(TRUE)

SpecVerifier == InitVerifier /\ [][NextVerifier]_vars

\* The adapter's refused capabilities, among requests that fill both caches
\* and change the filesystem; one request at a time.
FilePaths == {"/data", "/data/a.txt", "/none"}

Perms == {420, 493}

NextAdapter ==
    \/ \E file \in FilePaths : Lock(1, file) /\ UNCHANGED ghost
    \/ \E file \in FilePaths : Unlock(1, file) /\ UNCHANGED ghost
    \/ \E dir \in DirPaths, perm \in Perms : MkdirAll(1, dir, perm) /\ UNCHANGED ghost
    \/ \E path \in FilePaths : Chroot(1, path) /\ UNCHANGED ghost
    \/ \E filename \in FilePaths : Lstat(1, filename) /\ UNCHANGED ghost
    \/ \E target, link \in FilePaths : Symlink(1, target, link) /\ UNCHANGED ghost
    \/ \E link \in FilePaths : Readlink(1, link) /\ UNCHANGED ghost
    \/ \E dir \in DirPaths, prefix \in {"", "tmp"} : TempFile(1, dir, prefix) /\ UNCHANGED ghost
    \/ \E path \in {<<"a">>, <<"a", "b">>} : ToHandle(1, path) /\ UNCHANGED ghost
    \/ VerifierForStat(1, "/data", Slice(<<"a.txt">>)) /\ UNCHANGED ghost
    \/ VerifierForStatReturn(1) /\ UNCHANGED ghost
    \/ VerifierForAdd(1) /\ UNCHANGED ghost
    \/ \E name \in {"a.txt", ""} : Remove(1, "/data", name, 1) /\ UNCHANGED ghost

SpecAdapter == InitVerifier /\ [][NextAdapter]_vars

\* Concurrent requests against both caches while "/data" changes.
ConcurrentPaths == {<<"a", "b">>, <<"ab">>}

ConcurrentTimes == {0, 1}

NextConcurrent ==
    \/ \E p \in Procs, path \in ConcurrentPaths :
          ToHandle(p, path) /\ ObserveConcurrent(TRUE)
    \/ \E p \in Procs, path \in ConcurrentPaths :
          FromHandle(p, Digest(path)) /\ ObserveConcurrent(TRUE)
    \/ \E p \in Procs, contents \in Listings :
          VerifierForStat(p, "/data", contents) /\ ObserveConcurrent(FALSE)
    \/ \E p \in Procs : VerifierForStatReturn(p) /\ ObserveConcurrent(Completes)
    \/ \E p \in Procs : VerifierForAdd(p) /\ ObserveConcurrent(TRUE)
    \/ \E p \in Procs, now \in ConcurrentTimes :
          DataForVerifier(p, "/data", Uint64(now)) /\ ObserveConcurrent(TRUE)
    \/ \E p \in Procs, now \in ConcurrentTimes :
          Create(p, "/data", "a.txt", now) /\ ObserveConcurrent(TRUE)

SpecConcurrent == InitVerifier /\ [][NextConcurrent]_vars

\* The session handler's stateless requests and the adapter's forwarded
\* operations, among requests that fill both caches; one request at a time.
MaxJoinArgs == 2

JoinElems == {"", "a", "b", ".."}

JoinArgs == UNION {[1..n -> JoinElems] : n \in 0..MaxJoinArgs}

OpenFlags == {"O_RDONLY", "O_CREATE"}

NextHandler ==
    \/ \E total, used, free \in StatfsCounts : FSStat(1, total, used, free) /\ UNCHANGED ghost
    \/ \E dirpath \in FilePaths : Mount(1, dirpath) /\ UNCHANGED ghost
    \/ \E elem \in JoinArgs : Join(1, elem) /\ UNCHANGED ghost
    \/ HandleLimit(1) /\ UNCHANGED ghost
    \/ \E dir \in DirPaths : Stat(1, dir) /\ UNCHANGED ghost
    \/ \E dir \in DirPaths : ReadDir(1, dir) /\ UNCHANGED ghost
    \/ \E name \in FileNames : Open(1, "/data", name) /\ UNCHANGED ghost
    \/ \E name \in FileNames, flag \in OpenFlags :
          OpenFile(1, "/data", name, flag, 420, 1) /\ UNCHANGED ghost
    \/ \E name \in FileNames : Create(1, "/data", name, 1) /\ UNCHANGED ghost
    \/ \E name \in FileNames \cup {""} : Remove(1, "/data", name, 1) /\ UNCHANGED ghost
    \/ Rename(1, "/data", "a.txt", "b.txt", 1) /\ UNCHANGED ghost
    \/ ToHandle(1, <<"a">>) /\ UNCHANGED ghost
    \/ VerifierForStat(1, "/data", Slice(<<"a.txt">>)) /\ UNCHANGED ghost
    \/ VerifierForStatReturn(1) /\ UNCHANGED ghost
    \/ VerifierForAdd(1) /\ UNCHANGED ghost

SpecHandler == InitVerifier /\ [][NextHandler]_vars
\* Both caches under more distinct keys than they hold; one request at a
\* time.
CapacityPaths == {<<"a">>, <<"b">>, <<"c">>, <<"d">>}

NextCapacity ==
    \/ \E path \in CapacityPaths : ToHandle(1, path) /\ UNCHANGED ghost
    \/ \E path \in {<<"a">>, <<"b">>} : FromHandle(1, Digest(path)) /\ UNCHANGED ghost
    \/ HandleLimit(1) /\ UNCHANGED ghost
    \/ \E dir \in DirPaths :
          VerifierForStat(1, dir, Slice(<<"a.txt">>)) /\ UNCHANGED ghost
    \/ VerifierForStatReturn(1) /\ UNCHANGED ghost
    \/ VerifierForAdd(1) /\ UNCHANGED ghost
    \/ DataForVerifier(1, "/data", Uint64(0)) /\ UNCHANGED ghost
    \/ \E now \in {t \in ModTimes : t > vfs["/data"].modTime} :
          Create(1, "/data", "a.txt", now) /\ UNCHANGED ghost

SpecCapacity == InitVerifier /\ [][NextCapacity]_vars
\* Directory listings as the protocol layer serves them: a goroutine reads
\* the directory, then asks VerifierFor for the verifier of the listing it
\* read, while other goroutines create files in the directory.
NextListing ==
    \/ \E p \in Procs : ReadDir(p, "/data") /\ ObserveCapture(p)
    \/ \E p \in Procs :
          /\ captured[p].ok
          /\ VerifierForStat(p, captured[p].dir, captured[p].contents)
          /\ UNCHANGED ghost
    \/ \E p \in Procs : VerifierForStatReturn(p) /\ UNCHANGED ghost
    \/ \E p \in Procs : VerifierForAdd(p) /\ UNCHANGED ghost
    \/ \E p \in Procs, now \in ConcurrentTimes :
          Create(p, "/data", "b.txt", now) /\ UNCHANGED ghost

SpecListing == InitVerifier /\ [][NextListing]_vars

\* Every request of every goroutine.
Next ==
    \/ NextRegistry
    \/ NextEvict
    \/ NextVerifier
    \/ NextAdapter
    \/ NextConcurrent
    \/ NextHandler
    \/ NextCapacity
    \/ NextListing

Spec == Init /\ [][Next]_vars

\* ----------------------------------------------------------------- claims

\* C1: a FromHandle made directly after ToHandle(P), with the handle that
\* ToHandle returned, succeeds and returns exactly P.
C1_FromHandleAfterToHandle ==
    (ret.op = "FromHandle" /\ hprev.op = "ToHandle" /\ ret.fh = hprev.fh)
        => (ret.err = "" /\ ret.path = hprev.path)

\* C1 witness: the round trip for <<"a","b">> with the registry full, the
\* handle having been registered for <<"ab">> before.
C1_Witness ==
    /\ ret.op = "FromHandle" /\ hprev.op = "ToHandle" /\ ret.fh = hprev.fh
    /\ hprev.path = <<"a", "b">> /\ ret.path = <<"a", "b">>
    /\ issued[<<"ab">>] # "none"
    /\ TwoQueueLen(pathForHandle) = MAX_FILE_HANDLES

RegisteredPaths == {P \in Paths : issued[P] # "none"}

LeastRecentlyTouched == touched[Len(touched)]

MostRecentlyTouched == touched[1]

C3_ToHandleDeterministic ==
    ret.op = "ToHandle" => ret.fh = issued[ret.path]

\* C3 witness: P is registered again after its handle was evicted (the
\* FromHandle before failed, and the handle comes back through the list of
\* recently evicted keys into the frequent list).
C3_Witness ==
    /\ ret.op = "ToHandle" /\ ret.fh = issued[ret.path]
    /\ hprev.op = "FromHandle" /\ hprev.fh = ret.fh
    /\ hprev.err = "handle unknown or expired"
    /\ LruContains(pathForHandle.frequent, HandleKey(ret.fh))

\* C4 as stated: when the stat fails VerifierFor returns 0, and a
\* DataForVerifier(path, 0) that follows it returns absent.
C4_StatFailureThenAbsent ==
    /\ (ret.op = "VerifierFor" /\ ret.statErr # "") => ret.verifier = Uint64(0)
    /\ (/\ ret.op = "DataForVerifier" /\ ret.verifier = Uint64(0)
        /\ hprev.op = "VerifierFor" /\ hprev.statErr # "" /\ hprev.dir = ret.dir)
         => ret.contents.nil

\* C5: a DataForVerifier(path, v) made directly after a VerifierFor(path,
\* snapshot) that stated the path and returned v returns that snapshot.
C5_DataAfterVerifierFor ==
    (/\ ret.op = "DataForVerifier"
     /\ hprev.op = "VerifierFor" /\ hprev.statErr = ""
     /\ hprev.dir = ret.dir /\ hprev.verifier = ret.verifier)
        => ret.contents = hprev.contents

\* C5 witness: the round trip with the cache full, for a pair that was
\* produced before.
C5_Witness ==
    /\ ret.op = "DataForVerifier"
    /\ hprev.op = "VerifierFor" /\ hprev.statErr = ""
    /\ hprev.dir = ret.dir /\ hprev.verifier = ret.verifier
    /\ ret.contents = Slice(<<"a.txt", "b.txt">>)
    /\ TwoQueueLen(contentsForVerifier) = MAX_FILE_HANDLES
    /\ contentsForVerifier.recentEvict # <<>>

\* C6: DataForVerifier(path, v) returns absent when no VerifierFor for
\* that path ever returned v.
C6_NeverProducedIsAbsent ==
    (ret.op = "DataForVerifier" /\ <<ret.dir, ret.verifier>> \notin produced)
        => ret.contents.nil

\* C6 witness: absent for (path, v) while v is cached for the other path and
\* another verifier is cached for this path.
C6_Witness ==
    /\ ret.op = "DataForVerifier" /\ <<ret.dir, ret.verifier>> \notin produced
    /\ ret.contents.nil
    /\ \E d \in DirPaths \ {ret.dir} : ~CachedListing(d, ret.verifier).nil
    /\ \E v \in Verifiers \ {ret.verifier} : ~CachedListing(ret.dir, v).nil

\* C7: a step that changes the live filesystem leaves the verifier cache
\* as it is: DataForVerifier answers every (path, verifier) as before.
C7_LiveChangeKeepsCache ==
    [][vfs' # vfs =>
         /\ contentsForVerifier' = contentsForVerifier
         /\ \A d \in DirPaths, v \in Verifiers :
              CachedListing(d, v)' = CachedListing(d, v)]_vars

\* C7 witness: the directory was modified, and a listing is still cached
\* for it under a verifier that is no longer its modification time.
C7_Witness ==
    /\ ret.op \in {"Create", "Remove"} /\ ret.err = ""
    /\ \E v \in Verifiers :
         /\ ~CachedListing(ret.dir, v).nil
         /\ vfs[ret.dir].exists => Uint64(UnixMicro(vfs[ret.dir].modTime)) # v

Refused == {"Lock", "Unlock", "Symlink", "Readlink", "Lstat", "Chroot", "MkdirAll", "TempFile"}

\* C8: Lock, Unlock, Symlink, Readlink, Lstat, Chroot, MkdirAll and TempFile
\* return the fixed "not supported" error whatever their arguments and the
\* state, and change neither the filesystem nor either cache.
C8_RefusedCapabilities ==
    /\ [](ret.op \in Refused => ret.err = ErrNotSupported)
    /\ [][(ret'.op \in Refused /\ ret' # ret)
            => UNCHANGED <<vfs, pathForHandle, contentsForVerifier>>]_vars

\* C8 witness: MkdirAll was refused for a directory that does not exist,
\* with entries in both caches.
C8_Witness ==
    /\ ret.op = "MkdirAll" /\ ret.err = ErrNotSupported
    /\ ~vfs[ret.filename].exists
    /\ TwoQueueLen(pathForHandle) > 0 /\ TwoQueueLen(contentsForVerifier) > 0

\* C9: under any interleaving, a successful FromHandle returns a whole
\* path that some ToHandle was called with, and a DataForVerifier that is
\* not absent returns a whole listing that some VerifierFor was called with
\* for that path.
C9_WholeEntries ==
    /\ (ret.op = "FromHandle" /\ ret.err = "") => ret.path \in RegisteredPaths
    /\ (ret.op = "DataForVerifier" /\ ~ret.contents.nil)
         => <<ret.dir, ret.contents>> \in offered

\* C9 witness: a listing is read back while two other VerifierFor requests
\* are in progress, one of them carrying another listing for the same key.
C9_Witness ==
    /\ NumProcs >= 2
    /\ ret.op = "DataForVerifier" /\ ~ret.contents.nil
    /\ pc[1] = "Statted" /\ frame[1].verifier = ret.verifier
    /\ frame[1].contents # ret.contents
    /\ RegisteredPaths # {}

CacheRequests == {"ToHandle", "FromHandle", "DataForVerifier", "VerifierFor"}

\* C10: a VerifierFor inside Stat holds neither cache's mutex, and every
\* request of the other goroutines can take its step meanwhile.
C10_StatHoldsNoLock ==
    \A p \in Procs : pc[p] = "Stat" =>
        /\ p \notin mu.pathForHandle /\ p \notin mu.contentsForVerifier
        /\ \A q \in Procs \ {p} :
             /\ pc[q] = "idle" =>
                  /\ ENABLED ToHandle(q, <<"a">>)
                  /\ ENABLED FromHandle(q, "a")
                  /\ ENABLED DataForVerifier(q, "/data", Uint64(0))
                  /\ ENABLED VerifierForStat(q, "/data", NilSlice)
             /\ pc[q] = "Statted" => ENABLED VerifierForAdd(q)

\* C10 witness: while one VerifierFor stays inside Stat, a ToHandle, a
\* FromHandle, a DataForVerifier and a whole other VerifierFor completed.
C10_Witness ==
    /\ \E p \in Procs : pc[p] = "Stat"
    /\ during = CacheRequests

\* A uint64 u is the number n.
Uint64Is(u, n) == n >= 0 /\ u = <<0, 0, (n \div Limb) % Limb, n % Limb>>

\* C11 as stated: FSStat returns success with TotalSize the reported total,
\* FreeSize and AvailableSize the reported free byte count, TotalFiles 0 and
\* FreeFiles and AvailableFiles the largest uint64, whatever is reported.
C11_FSStatReportsCounts ==
    ret.op = "FSStat" =>
        /\ ret.err = ""
        /\ Uint64Is(ret.TotalSize, ret.total)
        /\ Uint64Is(ret.FreeSize, ret.free)
        /\ Uint64Is(ret.AvailableSize, ret.free)
        /\ Uint64Is(ret.TotalFiles, 0)
        /\ ret.FreeFiles = MaxUint64
        /\ ret.AvailableFiles = MaxUint64

Forwarded == {"Create", "Open", "OpenFile", "Stat", "ReadDir", "Remove", "Rename"}

\* The error the underlying filesystem gives the forwarded request r in
\* the current state.
VfsError(r) ==
    CASE r.op = "Create" -> VfsCreate(r.dir, r.name, 0).err
      [] r.op = "Open" -> VfsOpen(r.dir, r.name).err
      [] r.op = "OpenFile" -> VfsOpenFile(r.dir, r.name, r.flag, r.perm, 0).err
      [] r.op = "Stat" -> VfsStat(r.filename).err
      [] r.op = "ReadDir" -> VfsReadDir(r.path).err
      [] r.op = "Remove" -> VfsRemove(r.dir, r.name, 0).err
      [] r.op = "Rename" -> VfsRename(r.dir, r.oldname, r.newname, 0).err

\* C12 as stated: a forwarded operation returns the error of the underlying
\* filesystem unchanged, and none ends in a panic.
C12_ForwardedErrorsNoCrash ==
    /\ [](ret.op \in Forwarded /\ "panic" \in DOMAIN ret => ret.panic = "")
    /\ [][(ret'.op \in Forwarded /\ ret' # ret) => ret'.err = VfsError(ret')]_vars

\* C13: Mount answers MountStatusOk, the root filesystem view and the one
\* flavor AuthFlavorNull for every request in every state, and changes
\* neither cache.
C13_MountAlwaysOk ==
    /\ [](ret.op = "Mount" =>
            /\ ret.status = "MountStatusOk"
            /\ ret.fs = "s.fs"
            /\ ret.auth = <<"AuthFlavorNull">>)
    /\ [][(ret'.op = "Mount" /\ ret' # ret)
            => UNCHANGED <<vfs, pathForHandle, contentsForVerifier>>]_vars

\* C13 witness: a Mount of a path that does not exist was answered, with
\* entries in both caches.
C13_Witness ==
    /\ ret.op = "Mount" /\ ret.status = "MountStatusOk"
    /\ ret.dirpath = "/data" /\ ~vfs["/data"].exists
    /\ TwoQueueLen(pathForHandle) > 0 /\ TwoQueueLen(contentsForVerifier) > 0

\* C14 as stated: Join of no argument is the root "/"; Join of one or more
\* arguments is their concatenation with the separator, and never empty.
C14_JoinConcatenates ==
    ret.op = "Join" =>
        /\ ret.elem = <<>> => ret.path = "/"
        /\ ret.elem # <<>> =>
             /\ ret.path = StringsJoin(ret.elem, Separator)
             /\ ret.path # ""

PlainHandles == {Digest(P) : P \in PlainPaths}

VerifierKeys == {VerifierPathPair(v, d) : v \in Verifiers, d \in DirPaths}

\* C15: FromHandle resolves at most HandleLimit handles after any sequence
\* of requests, HandleLimit returns the capacity in every state, and the
\* verifier cache holds at most capacity-many entries.
C15_CapacityNeverExceeded ==
    /\ Cardinality({h \in PlainHandles : Resolves(h)}) <= MAX_FILE_HANDLES
    /\ TwoQueueLen(pathForHandle) <= MAX_FILE_HANDLES
    /\ ret.op = "HandleLimit" => ret.limit = MAX_FILE_HANDLES
    /\ Cardinality({k \in VerifierKeys : ~CachedListing(k.path, k.verifier).nil})
         <= MAX_FILE_HANDLES
    /\ TwoQueueLen(contentsForVerifier) <= MAX_FILE_HANDLES

\* C15 witness: HandleLimit is asked while both caches are full and both
\* have evicted an entry.
C15_Witness ==
    /\ ret.op = "HandleLimit"
    /\ Cardinality({h \in PlainHandles : Resolves(h)}) = MAX_FILE_HANDLES
    /\ pathForHandle.recentEvict # <<>>
    /\ TwoQueueLen(contentsForVerifier) = MAX_FILE_HANDLES
    /\ contentsForVerifier.recentEvict # <<>>

\* C16: a resolvable handle, or a stored listing, is lost only in a step
\* that inserts a key the cache does not hold while the cache holds
\* capacity-many entries; FromHandle and DataForVerifier lose none.  The
\* keys that resolve are the keys a Get finds.
C16_EvictionOnlyOnInsert ==
    [][/\ (/\ pathForHandle' # pathForHandle
           /\ TwoQueueKeys(pathForHandle) \ TwoQueueKeys(pathForHandle)' # {}) =>
                /\ ret'.op = "ToHandle"
                /\ HandleKey(ret'.fh) \notin TwoQueueKeys(pathForHandle)
                /\ TwoQueueLen(pathForHandle) = MAX_FILE_HANDLES
       /\ (/\ contentsForVerifier' # contentsForVerifier
           /\ TwoQueueKeys(contentsForVerifier) \ TwoQueueKeys(contentsForVerifier)' # {}) =>
                /\ ret'.op = "VerifierFor"
                /\ VerifierPathPair(ret'.verifier, ret'.dir)
                      \notin TwoQueueKeys(contentsForVerifier)
                /\ TwoQueueLen(contentsForVerifier) = MAX_FILE_HANDLES]_vars

\* C16 witness: a FromHandle fails for a handle that an insertion into the
\* full registry evicted, the verifier cache having evicted a listing too.
C16_Witness ==
    /\ ret.op = "FromHandle" /\ ret.err = "handle unknown or expired"
    /\ LruContains(pathForHandle.recentEvict, HandleKey(ret.fh))
    /\ TwoQueueLen(pathForHandle) = MAX_FILE_HANDLES
    /\ contentsForVerifier.recentEvict # <<>>

\* C17 as stated: the verifier under which VerifierFor(path, snapshot)
\* stores the snapshot is the modification time, in microseconds, that the
\* directory had when the snapshot was read, also when other requests
\* modify the directory between the read and the stat.
C17_VerifierOfCaptureTime ==
    [][\A p \in Procs :
         (pc[p] = "Statted" /\ pc'[p] = "idle") =>
             /\ VerifierPathPair(frame[p].verifier, frame[p].dir)
                   \in TwoQueueKeys(contentsForVerifier)'
             /\ frame[p].verifier = Uint64(UnixMicro(captured[p].modTime))]_vars

\* C18 as stated: VerifierFor returns 0 only when the stat fails, and the
\* verifier cache never holds an entry whose verifier is 0.
C18_ZeroOnlyOnStatFailure ==
    /\ (ret.op = "VerifierFor" /\ ret.verifier = Uint64(0)) => ret.statErr # ""
    /\ \A k \in TwoQueueKeys(contentsForVerifier) : k.verifier # Uint64(0)

\* C19 as stated: a successful FromHandle(h) returns the path that h was
\* issued for, whatever was registered in between: no two paths share a
\* handle.
C19_HandleResolvesToItsPath ==
    /\ (ret.op = "FromHandle" /\ ret.err = "") =>
          \A P \in RegisteredPaths : issued[P] = ret.fh => ret.path = P
    /\ \A P, Q \in RegisteredPaths : issued[P] = issued[Q] => P = Q

\* C20: FromHandle returns a path or fails with "handle unknown or
\* expired"; it never fails with "invalid value in map".
C20_NoInvalidValue ==
    ret.op = "FromHandle" =>
        \/ ret.err = "" /\ ret.path \in RegisteredPaths
        \/ ret.err = "handle unknown or expired" /\ ret.path = <<>>

\* C20 witness: a FromHandle fails for a handle that was evicted, whose key
\* the cache still remembers with no value, after a FromHandle that
\* returned a path.
C20_Witness ==
    /\ ret.op = "FromHandle" /\ ret.err = "handle unknown or expired"
    /\ LruContains(pathForHandle.recentEvict, HandleKey(ret.fh))
    /\ hprev.op = "FromHandle" /\ hprev.err = ""

=============================================================================
